---- MODULE Spec2Model ----
(***************************************************************************)
(* Model of convex/schema.ts: the schema declaration (defineSchema with    *)
(* nine defineTable(...).index(...) chains) and the helpers of the         *)
(* property tests on it (validateRole, createUserRecord,                   *)
(* createBranchRecord, tryModifyCreationTime).                             *)
(*                                                                         *)
(* Two specifications:                                                     *)
(*   SpecSchema  evaluates the schema declaration statement by statement   *)
(*               and then applies the validators to candidate values;      *)
(*   Spec        runs the record helpers against a clock (Date.now) and a  *)
(*               random source (Math.random).                              *)
(***************************************************************************)
EXTENDS Integers, Sequences, FiniteSets, TLC

VARIABLES
    schema,       \* tables declared so far: [name, fields, indexes], in order
    loadPos,      \* number of tables of the declaration already started
    idxPos,       \* number of .index() calls applied to the current table
    validation,   \* the last validation performed and its result
    clock,        \* the value Date.now() returns
    pc,           \* test body position: idle / before / created / after
    data,         \* the argument object of the create call
    timeBefore,   \* const timeBefore = Date.now()
    timeAfter,    \* const timeAfter = Date.now()
    records,      \* every record returned by a create helper, in order
    attemptedModification  \* the last result of tryModifyCreationTime

schemaVars == <<schema, loadPos, idxPos, validation>>
recordVars == <<clock, pc, data, timeBefore, timeAfter, records,
                attemptedModification>>
vars == <<schema, loadPos, idxPos, validation, clock, pc, data, timeBefore,
          timeAfter, records, attemptedModification>>

(***************************************************************************)
(* JavaScript values.  kind is the value's category, str is String(value). *)
(***************************************************************************)
Str(s) == [kind |-> "string", str |-> s]
Num(s) == [kind |-> "number", str |-> s]
Bool(s) == [kind |-> "boolean", str |-> s]
Null == [kind |-> "null", str |-> "null"]
Undefined == [kind |-> "undefined", str |-> "undefined"]
Obj(s) == [kind |-> "object", str |-> s]
Arr(s) == [kind |-> "array", str |-> s]

\* typeof x: null and arrays are "object".
typeof(x) ==
    CASE x.kind = "string" -> "string"
      [] x.kind = "number" -> "number"
      [] x.kind = "boolean" -> "boolean"
      [] x.kind = "undefined" -> "undefined"
      [] OTHER -> "object"

\* SameValueZero, the comparison of Array.prototype.includes: primitives by
\* value, objects and arrays by identity (a fresh one equals nothing).
SameValueZero(a, b) ==
    /\ a.kind \notin {"object", "array"}
    /\ a = b

includes(arr, x) == \E i \in 1..Len(arr) : SameValueZero(arr[i], x)

(***************************************************************************)
(* Validators of convex/values, as the schema uses them.                   *)
(***************************************************************************)
v_string == [kind |-> "string"]
v_number == [kind |-> "number"]
v_boolean == [kind |-> "boolean"]
v_literal(l) == [kind |-> "literal", value |-> l]
v_union(members) == [kind |-> "union", members |-> members]
v_optional(inner) == [kind |-> "optional", inner |-> inner]
v_id(table) == [kind |-> "id", table |-> table]
v_array(inner) == [kind |-> "array", inner |-> inner]
v_object(fields) == [kind |-> "object", fields |-> fields]

\* Whether value x passes validator val.  A literal is matched by strict
\* equality, a union by any member, an optional by undefined or the inner
\* validator.  An id is a string; arrays and objects are matched by kind
\* only, their contents are not part of the value model.
RECURSIVE validate(_, _)
validate(val, x) ==
    CASE val.kind = "string" -> typeof(x) = "string"
      [] val.kind = "number" -> typeof(x) = "number"
      [] val.kind = "boolean" -> typeof(x) = "boolean"
      [] val.kind = "literal" -> x = Str(val.value)
      [] val.kind = "union" ->
            \E i \in 1..Len(val.members) : validate(val.members[i], x)
      [] val.kind = "optional" ->
            x.kind = "undefined" \/ validate(val.inner, x)
      [] val.kind = "id" -> typeof(x) = "string"
      [] val.kind = "array" -> x.kind = "array"
      [] val.kind = "object" -> x.kind = "object"

index(name, fields) == [name |-> name, fields |-> fields]
defineTable(fields, indexCalls) == [fields |-> fields, indexCalls |-> indexCalls]

(***************************************************************************)
(* The nine table declarations.                                            *)
(***************************************************************************)
users ==
    defineTable(
        [clerkId |-> v_string,
         email |-> v_string,
         name |-> v_optional(v_string),
         role |-> v_union(<<v_literal("customer"), v_literal("staff"),
                            v_literal("admin")>>),
         phoneNumber |-> v_optional(v_string)],
        <<index("by_clerkId", <<"clerkId">>),
          index("by_email", <<"email">>)>>)

branches ==
    defineTable(
        [name |-> v_string,
         address |-> v_string,
         city |-> v_string,
         state |-> v_string,
         zipCode |-> v_string,
         phoneNumber |-> v_string,
         email |-> v_optional(v_string),
         isActive |-> v_boolean],
        <<index("by_isActive", <<"isActive">>)>>)

categories ==
    defineTable(
        [name |-> v_string,
         description |-> v_optional(v_string),
         displayOrder |-> v_optional(v_number),
         isActive |-> v_boolean],
        <<index("by_isActive", <<"isActive">>),
          index("by_displayOrder", <<"displayOrder">>)>>)

menuItemsSwapped ==
    defineTable(
        [categoryId |-> v_id("categories"),
         branchId |-> v_optional(v_id("branches")),
         name |-> v_string,
         description |-> v_optional(v_string),
         price |-> v_number,
         imageUrl |-> v_optional(v_string),
         isAvailable |-> v_boolean,
         preparationTime |-> v_optional(v_number)],
        <<index("by_categoryId", <<"categoryId">>),
          index("by_branchId", <<"branchId">>),
          index("by_isAvailable_categoryId", <<"categoryId", "isAvailable">>)>>)

menuItems ==
    defineTable(
        [categoryId |-> v_id("categories"),
         branchId |-> v_optional(v_id("branches")),
         name |-> v_string,
         description |-> v_optional(v_string),
         price |-> v_number,
         imageUrl |-> v_optional(v_string),
         isAvailable |-> v_boolean,
         preparationTime |-> v_optional(v_number)],
        <<index("by_categoryId", <<"categoryId">>),
          index("by_branchId", <<"branchId">>),
          index("by_isAvailable_categoryId", <<"isAvailable", "categoryId">>)>>)

tables ==
    defineTable(
        [branchId |-> v_id("branches"),
         tableNumber |-> v_string,
         capacity |-> v_number,
         status |-> v_union(<<v_literal("available"), v_literal("occupied"),
                              v_literal("reserved")>>)],
        <<index("by_branchId", <<"branchId">>),
          index("by_branchId_status", <<"branchId", "status">>),
          index("by_branchId_tableNumber", <<"branchId", "tableNumber">>)>>)

orders ==
    defineTable(
        [userId |-> v_id("users"),
         branchId |-> v_id("branches"),
         tableId |-> v_optional(v_id("tables")),
         orderNumber |-> v_string,
         orderType |-> v_union(<<v_literal("dine-in"), v_literal("takeout"),
                                 v_literal("delivery")>>),
         status |-> v_union(<<v_literal("pending"), v_literal("confirmed"),
                              v_literal("preparing"), v_literal("ready"),
                              v_literal("completed"), v_literal("cancelled")>>),
         totalAmount |-> v_number,
         notes |-> v_optional(v_string)],
        <<index("by_orderNumber", <<"orderNumber">>),
          index("by_userId", <<"userId">>),
          index("by_branchId", <<"branchId">>),
          index("by_status", <<"status">>),
          index("by_branchId_status", <<"branchId", "status">>)>>)

orderItems ==
    defineTable(
        [orderId |-> v_id("orders"),
         menuItemId |-> v_id("menuItems"),
         quantity |-> v_number,
         priceAtOrder |-> v_number,
         subtotal |-> v_number,
         specialInstructions |-> v_optional(v_string)],
        <<index("by_orderId", <<"orderId">>),
          index("by_menuItemId", <<"menuItemId">>)>>)

payments ==
    defineTable(
        [orderId |-> v_id("orders"),
         stripePaymentIntentId |-> v_optional(v_string),
         amount |-> v_number,
         status |-> v_union(<<v_literal("pending"), v_literal("succeeded"),
                              v_literal("failed"), v_literal("refunded")>>),
         paymentMethod |-> v_union(<<v_literal("card"), v_literal("cash"),
                                     v_literal("other")>>),
         transactionDate |-> v_optional(v_number)],
        <<index("by_orderId", <<"orderId">>),
          index("by_stripePaymentIntentId", <<"stripePaymentIntentId">>),
          index("by_status", <<"status">>)>>)

analytics ==
    defineTable(
        [branchId |-> v_optional(v_id("branches")),
         periodStart |-> v_number,
         periodEnd |-> v_number,
         totalRevenue |-> v_number,
         orderCount |-> v_number,
         customerCount |-> v_number,
         averageOrderValue |-> v_number,
         topMenuItems |-> v_optional(v_array(v_object(
             [menuItemId |-> v_id("menuItems"),
              name |-> v_string,
              orderCount |-> v_number,
              revenue |-> v_number])))],
        <<index("by_branchId", <<"branchId">>),
          index("by_branchId_periodStart", <<"branchId", "periodStart">>),
          index("by_periodStart_periodEnd", <<"periodStart", "periodEnd">>)>>)

\* The argument of defineSchema: the tables in declaration order.
defineSchema ==
    <<[name |-> "users", decl |-> users],
      [name |-> "branches", decl |-> branches],
      [name |-> "categories", decl |-> categories],
      [name |-> "menuItems", decl |-> menuItems],
      [name |-> "tables", decl |-> tables],
      [name |-> "orders", decl |-> orders],
      [name |-> "orderItems", decl |-> orderItems],
      [name |-> "payments", decl |-> payments],
      [name |-> "analytics", decl |-> analytics]>>


(***************************************************************************)
(* Evaluation of the schema declaration.  Each property of the object      *)
(* handed to defineSchema is a defineTable(...) call followed by its       *)
(* chained .index(...) calls, evaluated in source order.                   *)
(***************************************************************************)
Loaded ==
    /\ loadPos = Len(defineSchema)
    /\ idxPos = Len(defineSchema[loadPos].decl.indexCalls)

\* defineTable(fields): a new table with no index yet.
DefineTable ==
    /\ loadPos < Len(defineSchema)
    /\ loadPos > 0 => idxPos = Len(defineSchema[loadPos].decl.indexCalls)
    /\ schema' = Append(schema,
                        [name |-> defineSchema[loadPos + 1].name,
                         fields |-> defineSchema[loadPos + 1].decl.fields,
                         indexes |-> <<>>])
    /\ loadPos' = loadPos + 1
    /\ idxPos' = 0
    /\ UNCHANGED <<validation, recordVars>>

\* .index(name, fields): the next index of the current table.
Index ==
    /\ loadPos > 0
    /\ idxPos < Len(defineSchema[loadPos].decl.indexCalls)
    /\ schema' = [schema EXCEPT ![loadPos].indexes =
                     Append(@, defineSchema[loadPos].decl.indexCalls[idxPos + 1])]
    /\ idxPos' = idxPos + 1
    /\ UNCHANGED <<loadPos, validation, recordVars>>

\* The fields of the loaded schema whose validator is a union of literals.
EnumFields ==
    {tf \in UNION {{<<schema[i].name, f>> : f \in DOMAIN schema[i].fields} :
                      i \in 1..Len(schema)} :
        \E i \in 1..Len(schema) :
            /\ schema[i].name = tf[1]
            /\ schema[i].fields[tf[2]].kind = "union"}

FieldValidator(t, f) ==
    LET i == CHOOSE k \in 1..Len(schema) : schema[k].name = t
    IN  schema[i].fields[f]

\* The indexes the loaded schema declares, as <<table, field tuple>> pairs.
DeclaredIndexes ==
    UNION {{<<schema[i].name, schema[i].indexes[k].fields>> :
               k \in 1..Len(schema[i].indexes)} : i \in 1..Len(schema)}

(***************************************************************************)
(* validateRole and the values the tests feed it.                          *)
(***************************************************************************)
VALID_ROLES == <<Str("customer"), Str("staff"), Str("admin")>>

\* A validateRole that coerces instead of testing typeof: String(role) is
\* looked up among the valid roles.
validateRoleCoercing(role) ==
    IF ~includes(VALID_ROLES, Str(role.str))
    THEN [isValid |-> FALSE, error |-> "Invalid role: " \o role.str]
    ELSE [isValid |-> TRUE, error |-> ""]

\* error is "" where the code returns no error key.
validateRole(role) ==
    IF typeof(role) # "string"
    THEN [isValid |-> FALSE, error |-> "Role must be a string"]
    ELSE IF ~includes(VALID_ROLES, role)
    THEN [isValid |-> FALSE, error |-> "Invalid role: " \o role.str]
    ELSE [isValid |-> TRUE, error |-> ""]

\* Candidate values: every declared literal, near misses of them (case,
\* separator, padding, prefix), other strings, and one or more values of
\* every non-string type.
Candidates ==
    {Str(s) : s \in {"customer", "staff", "admin", "available", "occupied",
                     "reserved", "dine-in", "takeout", "delivery", "pending",
                     "confirmed", "preparing", "ready", "completed",
                     "cancelled", "succeeded", "failed", "refunded", "card",
                     "cash", "other",
                     "Customer", "ADMIN", "staff ", " staff", "manager", "",
                     "dine_in", "Pending", "canceled", "Card", "adm",
                     "null", "undefined", "0", "true"}}
    \cup {Num("0"), Num("1"), Num("NaN"), Bool("true"), Bool("false"), Null,
          Undefined, Obj("[object Object]"), Obj("admin"), Arr(""),
          Arr("customer"), Arr("card"), Arr("customer,staff")}

NoValidation ==
    [op |-> "none", table |-> "", field |-> "", value |-> Undefined,
     isValid |-> FALSE]

\* const result = validateRole(user.role)
ValidateRole ==
    /\ Loaded
    /\ \E x \in Candidates :
          validation' = [op |-> "validateRole", table |-> "users",
                         field |-> "role", value |-> x,
                         isValid |-> validateRole(x).isValid]
    /\ UNCHANGED <<schema, loadPos, idxPos, recordVars>>

\* The declared validator of an enumerated field applied to a value.
ValidateField ==
    /\ Loaded
    /\ \E tf \in EnumFields, x \in Candidates :
          validation' = [op |-> "validate", table |-> tf[1], field |-> tf[2],
                         value |-> x,
                         isValid |-> validate(FieldValidator(tf[1], tf[2]), x)]
    /\ UNCHANGED <<schema, loadPos, idxPos, recordVars>>


(***************************************************************************)
(* The record helpers.  A record is a function from field names to values: *)
(* JavaScript values for the declared fields, a number for _creationTime,  *)
(* a string for _id.  A field may be missing from the domain (absent) or   *)
(* present with the value Undefined.                                       *)
(***************************************************************************)
MaxClock == 3
MaxRecords == 2

Min(a, b) == IF a < b THEN a ELSE b

\* What Math.random() can return, as the digits of its base-36 fraction:
\* <<>> is 0, and two fractions that differ in their tenth digit only.
RandomDraws ==
    {<<>>,
     <<"i", "i", "i", "i", "i", "i", "i", "i", "i">>,
     <<"i", "i", "i", "i", "i", "i", "i", "i", "i", "z">>}

\* Number.prototype.toString(36) of a fraction in [0, 1), as characters.
toString36(digits) == IF digits = <<>> THEN <<"0">> ELSE <<"0", ".">> \o digits

\* String.prototype.substr(start, length).
substr(s, start, length) == SubSeq(s, start + 1, Min(Len(s), start + length))

RECURSIVE Join(_)
Join(chars) == IF chars = <<>> THEN "" ELSE Head(chars) \o Join(Tail(chars))

\* `user_${Math.random().toString(36).substr(2, 9)}` and its branch_ twin.
generatedId(prefix, random) ==
    Str(prefix \o Join(substr(toString36(random), 2, 9)))

\* A createUserRecord that spreads data last: { _creationTime, _id, ...data }.
createUserRecordSpreadLast(d, now, random) ==
    d @@ ("_creationTime" :> now)
      @@ ("_id" :> generatedId("user_", random))

\* { ...data, _creationTime: Date.now(), _id: `user_${...}` }: the later
\* properties of an object literal win, so the two system fields take
\* priority over same-named properties of data.
createUserRecord(d, now, random) ==
    ("_creationTime" :> now)
      @@ ("_id" :> generatedId("user_", random))
      @@ d

\* A createBranchRecord that stamps a time other than the current one.
createBranchRecordLate(d, now, random) ==
    ("_creationTime" :> now + 1)
      @@ ("_id" :> generatedId("branch_", random))
      @@ d

createBranchRecord(d, now, random) ==
    ("_creationTime" :> now)
      @@ ("_id" :> generatedId("branch_", random))
      @@ d

\* A tryModifyCreationTime that performs the assignment.
tryModifyCreationTimeAssigning(record, newTime) ==
    [success |-> TRUE, record |-> [record EXCEPT !["_creationTime"] = newTime]]

\* The returned success flag, together with the record as the call leaves
\* it: the body assigns nothing to it.
tryModifyCreationTime(record, newTime) ==
    [success |-> FALSE, record |-> record]

\* Arguments of createUserRecord.
userData(clerkId, role) ==
    [clerkId |-> Str(clerkId), email |-> Str("a@b.com"), role |-> Str(role)]

UserInputs ==
    {userData("u1", "customer"),
     [name |-> Str("Ann")] @@ userData("u1", "staff"),
     userData("u2", "manager"),
     [name |-> Undefined, phoneNumber |-> Undefined] @@ userData("u2", "admin"),
     ("_id" :> Str("user_x")) @@ ("_creationTime" :> 0)
        @@ userData("u3", "staff")}

\* Arguments of createBranchRecord.
branchData ==
    [name |-> Str("Main"), address |-> Str("1 High St"), city |-> Str("Austin"),
     state |-> Str("TX"), zipCode |-> Str("73301"),
     phoneNumber |-> Str("555-0100"), isActive |-> Bool("true")]

BranchInputs ==
    {branchData,
     [email |-> Undefined] @@ branchData}

NoData == [entity |-> "none", args |-> <<>>]
NoAttempt == [done |-> FALSE, success |-> FALSE]

\* The record the running test body has just created.
Current == records[Len(records)]

\* Date.now() moves on between any two steps.
Tick ==
    /\ clock < MaxClock
    /\ clock' = clock + 1
    /\ UNCHANGED <<schemaVars, pc, data, timeBefore, timeAfter, records,
                   attemptedModification>>

\* The test body starts: the generated arguments, const timeBefore = Date.now().
Begin ==
    /\ pc = "idle"
    /\ Len(records) < MaxRecords
    /\ \/ \E d \in UserInputs : data' = [entity |-> "users", args |-> d]
       \/ \E d \in BranchInputs : data' = [entity |-> "branches", args |-> d]
    /\ timeBefore' = clock
    /\ pc' = "before"
    /\ UNCHANGED <<schemaVars, clock, timeAfter, records, attemptedModification>>

\* const user = createUserRecord({...})
CreateUser ==
    /\ pc = "before"
    /\ data.entity = "users"
    /\ \E random \in RandomDraws :
          records' = Append(records,
                            [entity |-> "users",
                             rec |-> createUserRecord(data.args, clock, random)])
    /\ pc' = "created"
    /\ UNCHANGED <<schemaVars, clock, data, timeBefore, timeAfter,
                   attemptedModification>>

\* const branch = createBranchRecord({...})
CreateBranch ==
    /\ pc = "before"
    /\ data.entity = "branches"
    /\ \E random \in RandomDraws :
          records' = Append(records,
                            [entity |-> "branches",
                             rec |-> createBranchRecord(data.args, clock, random)])
    /\ pc' = "created"
    /\ UNCHANGED <<schemaVars, clock, data, timeBefore, timeAfter,
                   attemptedModification>>

\* const timeAfter = Date.now()
SampleAfter ==
    /\ pc = "created"
    /\ timeAfter' = clock
    /\ pc' = "after"
    /\ UNCHANGED <<schemaVars, clock, data, timeBefore, records,
                   attemptedModification>>

\* tryModifyCreationTime(record, newTime) on any record created so far, with
\* Date.now() + 10000 as in the test or with an earlier time.
TryModify ==
    /\ pc = "after"
    /\ \E i \in 1..Len(records), newTime \in {clock + 10000, 0} :
          LET r == tryModifyCreationTime(records[i].rec, newTime)
          IN  /\ records' = [records EXCEPT ![i].rec = r.record]
              /\ attemptedModification' = [done |-> TRUE, success |-> r.success]
    /\ UNCHANGED <<schemaVars, clock, pc, data, timeBefore, timeAfter>>

\* The test body returns: its locals are gone, the records made remain.
Finish ==
    /\ pc = "after"
    /\ pc' = "idle"
    /\ data' = NoData
    /\ timeBefore' = 0
    /\ timeAfter' = 0
    /\ attemptedModification' = NoAttempt
    /\ UNCHANGED <<schemaVars, clock, records>>

(***************************************************************************)
(* Specifications.                                                         *)
(***************************************************************************)
Init ==
    /\ schema = <<>>
    /\ loadPos = 0
    /\ idxPos = 0
    /\ validation = NoValidation
    /\ clock = 1
    /\ pc = "idle"
    /\ data = NoData
    /\ timeBefore = 0
    /\ timeAfter = 0
    /\ records = <<>>
    /\ attemptedModification = NoAttempt

NextSchema ==
    \/ DefineTable
    \/ Index
    \/ ValidateRole
    \/ ValidateField

Next ==
    \/ Tick
    \/ Begin
    \/ CreateUser
    \/ CreateBranch
    \/ SampleAfter
    \/ TryModify
    \/ Finish

SpecSchema == Init /\ [][NextSchema]_vars

Spec == Init /\ [][Next]_vars


(***************************************************************************)
(* Properties of the schema declaration and of validation (SpecSchema).    *)
(***************************************************************************)
\* The closed sets of section 3 of the specification.
SpecLiterals(t, f) ==
    CASE <<t, f>> = <<"users", "role">> -> {"customer", "staff", "admin"}
      [] <<t, f>> = <<"tables", "status">> ->
            {"available", "occupied", "reserved"}
      [] <<t, f>> = <<"orders", "orderType">> ->
            {"dine-in", "takeout", "delivery"}
      [] <<t, f>> = <<"orders", "status">> ->
            {"pending", "confirmed", "preparing", "ready", "completed",
             "cancelled"}
      [] <<t, f>> = <<"payments", "status">> ->
            {"pending", "succeeded", "failed", "refunded"}
      [] <<t, f>> = <<"payments", "paymentMethod">> -> {"card", "cash", "other"}
      [] OTHER -> {}

\* C1: enum closure.  The enumerated fields of the loaded schema are the six
\* the specification names, and every validation performed, by validateRole
\* or by a field's declared validator, accepts the value if and only if it
\* is a string equal to one of that field's literals; every other string and
\* every non-string value is rejected.
C1_EnumClosure ==
    /\ Loaded =>
          EnumFields = {<<"users", "role">>, <<"tables", "status">>,
                        <<"orders", "orderType">>, <<"orders", "status">>,
                        <<"payments", "status">>,
                        <<"payments", "paymentMethod">>}
    /\ validation.op # "none" =>
          (validation.isValid <=>
              /\ validation.value.kind = "string"
              /\ validation.value.str
                    \in SpecLiterals(validation.table, validation.field))

\* validateRole has rejected an array whose string form is a valid role.
C1_Witness ==
    /\ validation.op = "validateRole"
    /\ validation.value = Arr("customer")
    /\ ~validation.isValid

\* The indexes of section 6 of the specification.
SpecIndexes ==
    {<<"users", <<"clerkId">>>>, <<"users", <<"email">>>>,
     <<"branches", <<"isActive">>>>,
     <<"categories", <<"isActive">>>>, <<"categories", <<"displayOrder">>>>,
     <<"menuItems", <<"categoryId">>>>, <<"menuItems", <<"branchId">>>>,
     <<"menuItems", <<"isAvailable", "categoryId">>>>,
     <<"tables", <<"branchId">>>>, <<"tables", <<"branchId", "status">>>>,
     <<"tables", <<"branchId", "tableNumber">>>>,
     <<"orders", <<"orderNumber">>>>, <<"orders", <<"userId">>>>,
     <<"orders", <<"branchId">>>>, <<"orders", <<"status">>>>,
     <<"orders", <<"branchId", "status">>>>,
     <<"orderItems", <<"orderId">>>>, <<"orderItems", <<"menuItemId">>>>,
     <<"payments", <<"orderId">>>>,
     <<"payments", <<"stripePaymentIntentId">>>>, <<"payments", <<"status">>>>,
     <<"analytics", <<"branchId">>>>,
     <<"analytics", <<"branchId", "periodStart">>>>,
     <<"analytics", <<"periodStart", "periodEnd">>>>}

\* C8: index declarations.  Once the declaration is evaluated, the set of
\* (collection, ordered field tuple) indexes is exactly the listed set, and
\* before that every index declared so far is a listed one.
C8_IndexDeclarations ==
    /\ DeclaredIndexes \subseteq SpecIndexes
    /\ Loaded => DeclaredIndexes = SpecIndexes

\* The declaration is fully evaluated, composite indexes included.
C8_Witness ==
    /\ Loaded
    /\ <<"menuItems", <<"isAvailable", "categoryId">>>> \in DeclaredIndexes
    /\ <<"tables", <<"branchId", "tableNumber">>>> \in DeclaredIndexes

(***************************************************************************)
(* Properties of the record helpers (Spec).                                *)
(***************************************************************************)
SystemFields == {"_id", "_creationTime"}

\* C2: timestamp immutability.  No step, an attempted modification
\* included, changes the _creationTime of a record already created, and
\* every attempt reports success = false.
C2_TimestampImmutable ==
    [][/\ \A i \in 1..Len(records) :
             records'[i].rec["_creationTime"] = records[i].rec["_creationTime"]
       /\ attemptedModification'.done => ~attemptedModification'.success]_vars

\* An attempt was made while two records exist.
C2_Witness ==
    /\ attemptedModification.done
    /\ Len(records) = 2

\* C3: timestamp bounds.  With timeBefore sampled before the create call
\* and timeAfter after it, timeBefore <= _creationTime <= timeAfter, for
\* user and branch records alike.
C3_TimestampBounds ==
    /\ pc = "created" =>
          /\ timeBefore <= Current.rec["_creationTime"]
          /\ Current.rec["_creationTime"] <= clock
    /\ pc = "after" =>
          /\ timeBefore <= Current.rec["_creationTime"]
          /\ Current.rec["_creationTime"] <= timeAfter

\* A branch was created strictly between the two samples.
C3_Witness ==
    /\ pc = "after"
    /\ Current.entity = "branches"
    /\ timeBefore < Current.rec["_creationTime"]
    /\ Current.rec["_creationTime"] < timeAfter

\* C10: create frame.  A create step leaves the argument object as it was
\* and returns a record whose keys are the argument's keys plus _id and
\* _creationTime, whose every other field has the supplied value, whose
\* _creationTime is the current time and whose _id is a generated one, also
\* when the argument itself carries _id or _creationTime.
C10_CreateFrame ==
    [][(pc = "before" /\ pc' = "created") =>
          LET rec == records'[Len(records')].rec
              args == data.args
              prefix == IF data.entity = "users" THEN "user_" ELSE "branch_"
          IN  /\ data' = data
              /\ Len(records') = Len(records) + 1
              /\ \A i \in 1..Len(records) : records'[i] = records[i]
              /\ DOMAIN rec = DOMAIN args \cup SystemFields
              /\ \A k \in DOMAIN args \ SystemFields : rec[k] = args[k]
              /\ rec["_creationTime"] = clock
              /\ \E random \in RandomDraws :
                    rec["_id"] = generatedId(prefix, random)]_vars

\* A record was created from an argument that carried its own _id and
\* _creationTime, and holds neither.
C10_Witness ==
    /\ pc = "created"
    /\ SystemFields \subseteq DOMAIN data.args
    /\ Current.rec["_id"] # data.args["_id"]
    /\ Current.rec["_creationTime"] # data.args["_creationTime"]

\* C4: uniqueness.  No two user records share a clerkId.
C4_UniqueClerkId ==
    \A i, j \in 1..Len(records) :
        (/\ i # j
         /\ records[i].entity = "users"
         /\ records[j].entity = "users")
            => records[i].rec.clerkId # records[j].rec.clerkId

\* C5: validation at write time.  Every user record that exists has a role
\* the declared validator of users.role accepts.
C5_StoredRolesValid ==
    \A i \in 1..Len(records) :
        records[i].entity = "users"
            => validate(users.fields.role, records[i].rec.role)

\* The optional fields of a table declaration.
OptionalFields(decl) ==
    {f \in DOMAIN decl.fields : decl.fields[f].kind = "optional"}

\* C6: optional field round-trip.  A record created with an optional field
\* omitted or passed as undefined does not have the field as a key; created
\* with a value, it has that value.
C6_OptionalRoundTrip ==
    pc \in {"created", "after"} =>
        LET decl == IF data.entity = "users" THEN users ELSE branches
        IN  \A f \in OptionalFields(decl) :
                IF f \notin DOMAIN data.args \/ data.args[f] = Undefined
                THEN f \notin DOMAIN Current.rec
                ELSE /\ f \in DOMAIN Current.rec
                     /\ Current.rec[f] = data.args[f]

\* C7: identifier uniqueness.  No two records of the same entity share an
\* _id.
C7_UniqueIds ==
    \A i, j \in 1..Len(records) :
        (i # j /\ records[i].entity = records[j].entity)
            => records[i].rec["_id"] # records[j].rec["_id"]

====
